---- MODULE Spec2Model ----
(***************************************************************************)
(* A model of reader3's server.py: the subsection extractor                *)
(* (build_subsection_content), the cached book loader (load_book_cached),  *)
(* the chapter reader (read_chapter, redirect_to_first_chapter) and the    *)
(* image route (serve_image).                                              *)
(*                                                                         *)
(* Conventions.  A Python string is a sequence of one-character strings    *)
(* ("#x" is <<"#", "x">>).  An Optional value is a sequence of length at   *)
(* most one: None is <<>>, a value v is <<v>>.  An HTML fragment is a      *)
(* sequence of tokens (start tag with its attributes, end tag, text run);  *)
(* the parsed soup is a sequence of nodes in document order, each naming   *)
(* its parent (0 is the BeautifulSoup object itself).                      *)
(***************************************************************************)
EXTENDS Integers, Sequences, FiniteSets, TLC

\* ------------------------------------------------------------ bounds
\* Most nodes of a fragment given to build_subsection_content on its own.
MaxNodes == 3
\* Most nodes of a fragment in the anchor-resolution specification.
MaxResolveNodes == 3
\* Longest book_id / image_name handed to serve_image.
MaxStrLen == 3
\* Largest chapter index a request carries (the smallest is -1).
MaxIndex == 3

\* ------------------------------------------------------------ optional values
None == <<>>

Some(v) == <<v>>

IsNone(o) == o = <<>>

\* The least and the greatest of a non-empty set of numbers.
First(S) == CHOOSE i \in S : \A j \in S : i <= j

Last(S) == CHOOSE i \in S : \A j \in S : j <= i

\* ------------------------------------------------------------ document model
NoAttrs == [id |-> None, name |-> None, href |-> None]

OpenTok(n, a) == [kind |-> "open", name |-> n, attrs |-> a]

CloseTok(n) == [kind |-> "close", name |-> n, attrs |-> NoAttrs]

TextTok == [kind |-> "text", name |-> "", attrs |-> NoAttrs]

\* A Tag has its tag name; a NavigableString has no name (getattr gives None).
TagNode(n, a, p) == [name |-> Some(n), attrs |-> a, parent |-> p]

TextNode(p) == [name |-> None, attrs |-> NoAttrs, parent |-> p]

IsTag(soup, i) == ~IsNone(soup[i].name)

RECURSIVE Ancestors(_, _)
\* The chain of parents of node i, nearest first (the soup object 0 left out).
Ancestors(soup, i) ==
  IF i = 0 \/ soup[i].parent = 0 THEN <<>>
  ELSE <<soup[i].parent>> \o Ancestors(soup, soup[i].parent)

\* node.children: the nodes whose parent is p, in document order.
ChildrenOf(soup, p) ==
  SelectSeq([i \in 1..Len(soup) |-> i], LAMBDA i : soup[i].parent = p)

\* node.next_siblings: the later children of node's parent, in order.
next_siblings(soup, i) ==
  SelectSeq([j \in 1..Len(soup) |-> j],
            LAMBDA j : j > i /\ soup[j].parent = soup[i].parent)

RECURSIVE decode(_, _)
RECURSIVE decodeAll(_, _)
\* str(node): the node's markup, its subtree included.
decode(soup, i) ==
  IF IsTag(soup, i)
  THEN <<OpenTok(soup[i].name[1], soup[i].attrs)>>
       \o decodeAll(soup, ChildrenOf(soup, i))
       \o <<CloseTok(soup[i].name[1])>>
  ELSE <<TextTok>>

\* "".join(str(node) for node in nodes)
decodeAll(soup, nodes) ==
  IF nodes = <<>> THEN <<>>
  ELSE decode(soup, Head(nodes)) \o decodeAll(soup, Tail(nodes))

\* The markup of a whole tree: what a chapter's content string holds.
Markup(soup) == decodeAll(soup, ChildrenOf(soup, 0))

RECURSIVE PopToTag(_, _, _)
\* The open-element stack after an end tag: popped down to and including the
\* most recent open element of that name; an end tag matching nothing is ignored.
PopToTag(soup, stack, n) ==
  IF stack = <<>> THEN <<>>
  ELSE IF soup[Head(stack)].name = Some(n) THEN Tail(stack)
  ELSE PopToTag(soup, Tail(stack), n)

RECURSIVE ParseFrom(_, _, _, _)
\* The tree builder: soup so far, stack of open elements (innermost first).
ParseFrom(html, k, soup, stack) ==
  IF k > Len(html) THEN soup
  ELSE LET tok == html[k]
           top == IF stack = <<>> THEN 0 ELSE Head(stack)
       IN CASE tok.kind = "open" ->
                 ParseFrom(html, k + 1,
                           Append(soup, TagNode(tok.name, tok.attrs, top)),
                           <<Len(soup) + 1>> \o stack)
            [] tok.kind = "text" ->
                 ParseFrom(html, k + 1, Append(soup, TextNode(top)), stack)
            [] OTHER ->
                 ParseFrom(html, k + 1, soup,
                           IF \E j \in 1..Len(stack) : soup[stack[j]].name = Some(tok.name)
                           THEN PopToTag(soup, stack, tok.name)
                           ELSE stack)

\* BeautifulSoup(html, "html.parser")
BeautifulSoup(html) == ParseFrom(html, 1, <<>>, <<>>)

\* ------------------------------------------------------------ build_subsection_content
\* soup.find(...): the first tag in document order among those that match.
find(soup, matching) ==
  LET hits == {i \in matching : IsTag(soup, i)}
  IN IF hits = {} THEN None ELSE Some(First(hits))

\* f"#{anchor}"
HashRef(anchor) == <<"#">> \o anchor

\* soup.find(id=anchor)
find_id(soup, anchor) ==
  find(soup, {i \in 1..Len(soup) : soup[i].attrs.id = Some(anchor)})

\* soup.find(attrs={"name": anchor})
find_name(soup, anchor) ==
  find(soup, {i \in 1..Len(soup) : soup[i].attrs.name = Some(anchor)})

\* soup.find("a", href=f"#{anchor}")
find_a_href(soup, anchor) ==
  find(soup, {i \in 1..Len(soup) : soup[i].name = Some("a")
                                  /\ soup[i].attrs.href = Some(HashRef(anchor))})

ResolveNameBeforeId(soup, anchor) ==
  IF ~IsNone(find_name(soup, anchor)) THEN find_name(soup, anchor)
  ELSE IF ~IsNone(find_id(soup, anchor)) THEN find_id(soup, anchor)
  ELSE find_a_href(soup, anchor)

\* Lines 71-75: id, then name, then an 'a' whose href is '#'+anchor.
ResolveAnchor(soup, anchor) ==
  IF ~IsNone(find_id(soup, anchor)) THEN find_id(soup, anchor)
  ELSE IF ~IsNone(find_name(soup, anchor)) THEN find_name(soup, anchor)
  ELSE find_a_href(soup, anchor)

heading_levels == {"h1", "h2", "h3", "h4", "h5", "h6"}

\* int(node_name[1]) for a heading's tag name.
LevelDigit(n) ==
  CASE n = "h1" -> 1 [] n = "h2" -> 2 [] n = "h3" -> 3
    [] n = "h4" -> 4 [] n = "h5" -> 5 [] n = "h6" -> 6

\* get_heading_level(node): Some(level) for h1..h6, None otherwise.
get_heading_level(soup, i) ==
  IF ~IsNone(soup[i].name) /\ soup[i].name[1] \in heading_levels
  THEN Some(LevelDigit(soup[i].name[1]))
  ELSE None

\* target.find_parent(heading_levels): the nearest ancestor that is a heading.
find_parent(soup, i) ==
  LET up == SelectSeq(Ancestors(soup, i),
                      LAMBDA j : soup[j].name[1] \in heading_levels)
  IN IF up = <<>> THEN None ELSE Some(Head(up))

StartNodeNoPromotion(soup, target) == target

\* Lines 87-93: the start node (the target, or its nearest heading ancestor
\* when the target is no heading).
StartNode(soup, target) ==
  IF IsNone(get_heading_level(soup, target))
     /\ ~IsNone(find_parent(soup, target))
  THEN find_parent(soup, target)[1]
  ELSE target

BreaksWalkStrict(start_level, sibling_level) ==
  IsNone(start_level) \/ sibling_level < start_level[1]

BreaksWalkUnbounded(start_level, sibling_level) ==
  ~IsNone(start_level) /\ sibling_level <= start_level[1]

\* Line 100: start_level is None or sibling_level <= start_level.
BreaksWalk(start_level, sibling_level) ==
  IsNone(start_level) \/ sibling_level <= start_level[1]

RECURSIVE CollectSiblings(_, _, _)
\* Lines 96-102: the for loop over the following siblings, up to the break.
CollectSiblings(soup, siblings, start_level) ==
  IF siblings = <<>> THEN <<>>
  ELSE LET sibling == Head(siblings)
           sibling_level == get_heading_level(soup, sibling)
       IN IF ~IsNone(sibling_level) /\ BreaksWalk(start_level, sibling_level[1])
          THEN <<>>
          ELSE <<sibling>> \o CollectSiblings(soup, Tail(siblings), start_level)

\* Lines 87-102: the nodes of the section that starts at the resolved target.
SectionNodes(soup, target) ==
  LET start == StartNode(soup, target)
      start_level == get_heading_level(soup, start)
  IN <<start>> \o CollectSiblings(soup, next_siblings(soup, start), start_level)

build_subsection_contentWholeOnMiss(html_text, anchor_param) ==
  IF IsNone(anchor_param) \/ anchor_param[1] = <<>> THEN None
  ELSE LET soup == BeautifulSoup(html_text)
           target == ResolveAnchor(soup, anchor_param[1])
       IN IF IsNone(target) THEN Some(html_text)
          ELSE Some(decodeAll(soup, SectionNodes(soup, target[1])))

\* build_subsection_content(html, anchor): None, or the section's markup.
build_subsection_content(html_text, anchor_param) ==
  IF IsNone(anchor_param) \/ anchor_param[1] = <<>> THEN None
  ELSE LET soup == BeautifulSoup(html_text)
           target == ResolveAnchor(soup, anchor_param[1])
       IN IF IsNone(target) THEN None
          ELSE Some(decodeAll(soup, SectionNodes(soup, target[1])))

\* ------------------------------------------------------------ input fragments
\* Parent vectors of the trees of n nodes listed in document order: node i hangs
\* under node i-1, under one of node i-1's ancestors, or under the soup itself.
RECURSIVE AncestorSet(_, _)
AncestorSet(par, i) ==
  IF i = 0 THEN {0} ELSE {i} \cup AncestorSet(par, par[i])

Shapes(n) ==
  {par \in [1..n -> 0..(n - 1)] :
     \A i \in 1..n : par[i] < i /\ (i > 1 => par[i] \in AncestorSet(par, i - 1))}

Attr(i, n, h) == [id |-> i, name |-> n, href |-> h]

\* Headings and paragraphs, some carrying id="x", and text runs.
SectionLabels ==
  {[name |-> Some(n), attrs |-> a] :
     n \in {"h1", "h2", "h3", "p"},
     a \in {NoAttrs, Attr(Some(<<"x">>), None, None)}}
  \cup {[name |-> None, attrs |-> NoAttrs]}

\* Paragraphs and links carrying one of id, name or href.
AnchorLabels ==
  {[name |-> Some(n), attrs |-> a] :
     n \in {"p", "a"},
     a \in {NoAttrs,
            Attr(Some(<<"x">>), None, None),
            Attr(None, Some(<<"x">>), None),
            Attr(None, None, Some(<<"#", "x">>)),
            Attr(Some(<<"y">>), None, None)}}

\* A text run has no children and no text run follows another under one parent
\* (the parser joins adjacent character data into one string).
WellFormed(par, lab) ==
  \A i \in DOMAIN par :
    /\ par[i] # 0 => ~IsNone(lab[par[i]].name)
    /\ \A j \in DOMAIN par :
         (j > i /\ par[j] = par[i] /\ IsNone(lab[i].name) /\ IsNone(lab[j].name))
           => \E k \in (i + 1)..(j - 1) : par[k] = par[i]

TreeOf(par, lab) ==
  [i \in DOMAIN par |-> [name |-> lab[i].name, attrs |-> lab[i].attrs, parent |-> par[i]]]

\* The fragments of at most max nodes labelled from labels, as markup.
IsFragment(h, labels, max) ==
  \E n \in 0..max : \E par \in Shapes(n) : \E lab \in [1..n -> labels] :
    WellFormed(par, lab) /\ h = Markup(TreeOf(par, lab))

\* The anchors of the direct calls: the two identifiers the fragments use.
CallAnchors == {Some(<<"x">>), Some(<<"y">>)}

\* ------------------------------------------------------------ state
VARIABLES
  html,            \* build_subsection_content's html argument (a direct call)
  anchor,          \* its anchor argument
  ret,             \* [called, value]: what the last call returned
  disk,            \* per book folder: "absent" (no book.pkl), "corrupt" or "ok"
  cache,           \* load_book_cached's LRU cache: entries [key, value], oldest first
  last_result,     \* per book id, what its latest load_book_cached call returned
  lookup,          \* the latest load_book_cached call: [key, ran_loader, result, before]
  request,         \* the latest request: [route, book_id, chapter_index, anchor]
  response         \* its outcome

callVars == <<html, anchor, ret>>

serverVars == <<disk, cache, last_result, lookup, request, response>>

vars == <<html, anchor, ret, disk, cache, last_result, lookup, request, response>>

\* The server part of the state when no server runs.
ServerIdle ==
  /\ disk = <<>>
  /\ cache = <<>>
  /\ last_result = <<>>
  /\ lookup = None
  /\ request = None
  /\ response = None

\* ------------------------------------------------------------ direct calls
InitExtract ==
  /\ \/ IsFragment(html, SectionLabels, MaxNodes)
     \/ IsFragment(html, AnchorLabels, MaxResolveNodes)
  /\ anchor = None
  /\ ret = [called |-> FALSE, value |-> None]
  /\ ServerIdle

\* One call of build_subsection_content(html, anchor).
BuildSubsectionContent ==
  \E a \in CallAnchors :
    /\ anchor' = a
    /\ ret' = [called |-> TRUE, value |-> build_subsection_content(html, a)]
    /\ UNCHANGED html
    /\ UNCHANGED serverVars

NextExtract == BuildSubsectionContent

SpecExtract == InitExtract /\ [][NextExtract]_vars

\* ------------------------------------------------------------ properties of the extractor
\* A call was made with a non-empty anchor.
CallAnchored == ret.called /\ ~IsNone(anchor) /\ anchor[1] # <<>>

IsHeading(soup, i) == IsTag(soup, i) /\ soup[i].name[1] \in heading_levels

LevelOf(soup, i) == LevelDigit(soup[i].name[1])

AllHeadings(soup) == {j \in 1..Len(soup) : IsHeading(soup, j)}

HeadingAncestors(soup, i) ==
  {j \in AllHeadings(soup) :
     j \in AncestorSet([k \in 1..Len(soup) |-> soup[k].parent], soup[i].parent)}

\* The later siblings of s that come before the first one in stops.
SiblingsBefore(soup, s, stops) ==
  LET sibs == next_siblings(soup, s)
      at == {k \in 1..Len(sibs) : sibs[k] \in stops}
      end == IF at = {} THEN Len(sibs) ELSE First(at) - 1
  IN SubSeq(sibs, 1, end)

\* The span of a heading s of level L: s and its later siblings up to the first
\* sibling heading of level <= L.
HeadingSpan(soup, s) ==
  <<s>> \o SiblingsBefore(soup, s,
             {j \in AllHeadings(soup) : LevelOf(soup, j) <= LevelOf(soup, s)})

\* The span of a target under no heading: up to the first sibling heading.
PlainSpan(soup, t) == <<t>> \o SiblingsBefore(soup, t, AllHeadings(soup))

\* C1: when the anchor resolves to a heading of level L, the returned content is
\* the markup of that heading and of its following siblings up to, not including,
\* the first sibling heading of level <= L (deeper headings included; to the end
\* of the parent's children when there is none).
C1_HeadingSpan ==
  CallAnchored =>
    LET soup == BeautifulSoup(html)
        target == ResolveAnchor(soup, anchor[1])
    IN (~IsNone(target) /\ IsHeading(soup, target[1]))
         => ret.value = Some(decodeAll(soup, HeadingSpan(soup, target[1])))

\* A heading target whose span takes in a deeper sibling heading and ends before
\* a sibling heading of its own level or above.
C1_Witness ==
  /\ CallAnchored
  /\ LET soup == BeautifulSoup(html)
         target == ResolveAnchor(soup, anchor[1])
     IN /\ ~IsNone(target) /\ IsHeading(soup, target[1])
        /\ LET span == HeadingSpan(soup, target[1])
           IN /\ \E k \in 2..Len(span) : IsHeading(soup, span[k])
              /\ Len(span) - 1 < Len(next_siblings(soup, target[1]))
              /\ ret.value = Some(decodeAll(soup, span))

\* C2 as stated: when the anchor resolves to a non-heading element with no
\* heading ancestor, the returned content is the target and ALL its following
\* siblings, sibling headings included.
C2_AllSiblings ==
  CallAnchored =>
    LET soup == BeautifulSoup(html)
        target == ResolveAnchor(soup, anchor[1])
    IN (~IsNone(target) /\ ~IsHeading(soup, target[1])
          /\ HeadingAncestors(soup, target[1]) = {})
         => ret.value = Some(decodeAll(soup, <<target[1]>> \o next_siblings(soup, target[1])))

\* C2 amended: when the anchor resolves to a non-heading element with no heading
\* ancestor, the returned content is the target and its following siblings up
\* to, not including, the first following sibling that is a heading of any
\* level (to the end of the parent's children when there is none).
C2_UntilAnyHeading ==
  CallAnchored =>
    LET soup == BeautifulSoup(html)
        target == ResolveAnchor(soup, anchor[1])
    IN (~IsNone(target) /\ ~IsHeading(soup, target[1])
          /\ HeadingAncestors(soup, target[1]) = {})
         => ret.value = Some(decodeAll(soup, PlainSpan(soup, target[1])))

\* A non-heading target without heading ancestor, followed by a sibling that is
\* kept and then by a sibling heading that ends the span.
C2_Witness ==
  /\ CallAnchored
  /\ LET soup == BeautifulSoup(html)
         target == ResolveAnchor(soup, anchor[1])
     IN /\ ~IsNone(target) /\ ~IsHeading(soup, target[1])
        /\ HeadingAncestors(soup, target[1]) = {}
        /\ Len(PlainSpan(soup, target[1])) >= 2
        /\ Len(PlainSpan(soup, target[1])) - 1 < Len(next_siblings(soup, target[1]))
        /\ ret.value = Some(decodeAll(soup, PlainSpan(soup, target[1])))

\* C3: when the anchor resolves to a non-heading element inside a heading, the
\* returned content is the span of the nearest heading ancestor, as for an anchor
\* on that heading itself (collected from the heading's siblings).
C3_PromotedToHeading ==
  CallAnchored =>
    LET soup == BeautifulSoup(html)
        target == ResolveAnchor(soup, anchor[1])
    IN (~IsNone(target) /\ ~IsHeading(soup, target[1])
          /\ HeadingAncestors(soup, target[1]) # {})
         => ret.value = Some(decodeAll(soup,
                               HeadingSpan(soup, Last(HeadingAncestors(soup, target[1])))))

\* A target nested in a heading that has a following sibling in the span.
C3_Witness ==
  /\ CallAnchored
  /\ LET soup == BeautifulSoup(html)
         target == ResolveAnchor(soup, anchor[1])
     IN /\ ~IsNone(target) /\ ~IsHeading(soup, target[1])
        /\ HeadingAncestors(soup, target[1]) # {}
        /\ LET span == HeadingSpan(soup, Last(HeadingAncestors(soup, target[1])))
           IN Len(span) >= 2 /\ ret.value = Some(decodeAll(soup, span))

\* The tags matching the anchor under each strategy.
IdMatches(soup, a) == {i \in 1..Len(soup) : IsTag(soup, i) /\ soup[i].attrs.id = Some(a)}

NameMatches(soup, a) == {i \in 1..Len(soup) : IsTag(soup, i) /\ soup[i].attrs.name = Some(a)}

HrefMatches(soup, a) ==
  {i \in 1..Len(soup) : IsTag(soup, i) /\ soup[i].name = Some("a")
                        /\ soup[i].attrs.href = Some(<<"#">> \o a)}

\* The node the three strategies select, in their order of priority.
PriorityTarget(soup, a) ==
  IF IdMatches(soup, a) # {} THEN Some(First(IdMatches(soup, a)))
  ELSE IF NameMatches(soup, a) # {} THEN Some(First(NameMatches(soup, a)))
  ELSE IF HrefMatches(soup, a) # {} THEN Some(First(HrefMatches(soup, a)))
  ELSE None

\* C4: the content returned is the section of the first id match when one
\* exists, else of the first name match when one exists, else of the first 'a'
\* element whose href is '#'+anchor, wherever these stand in the document; with
\* no match under any strategy nothing is returned.
C4_ResolutionPriority ==
  CallAnchored =>
    LET soup == BeautifulSoup(html)
        want == PriorityTarget(soup, anchor[1])
    IN ret.value = IF IsNone(want) THEN None
                   ELSE Some(decodeAll(soup, SectionNodes(soup, want[1])))

\* An href match before a name match before an id match: the id match is used.
C4_Witness ==
  /\ CallAnchored
  /\ LET soup == BeautifulSoup(html)
         ids == IdMatches(soup, anchor[1])
         names == NameMatches(soup, anchor[1])
         hrefs == HrefMatches(soup, anchor[1])
     IN /\ ids # {} /\ names # {} /\ hrefs # {}
        /\ First(hrefs) < First(names) /\ First(names) < First(ids)
        /\ ret.value = Some(decodeAll(soup, SectionNodes(soup, First(ids))))

\* ------------------------------------------------------------ books
\* lru_cache(maxsize=10)
CacheMaxSize == 10

Str(name, attrs, inner) == <<OpenTok(name, attrs)>> \o inner \o <<CloseTok(name)>>

IdX == Attr(Some(<<"x">>), None, None)

NameX == Attr(None, Some(<<"x">>), None)

HrefX == Attr(None, None, Some(<<"#", "x">>))

\* ChapterContent(id, href, title, content, text, order)
ChapterContent(id, href, title, content, text, order) ==
  [id |-> id, href |-> href, title |-> title, content |-> content,
   text |-> text, order |-> order]

\* Book(metadata, spine): the fields server.py reads.
Book(title, authors, spine) ==
  [metadata |-> [title |-> title, authors |-> authors], spine |-> spine]

\* The chapter fragments of the books on disk.
Intro ==
  Str("h1", IdX, <<TextTok>>) \o Str("p", NoAttrs, <<TextTok>>)
  \o Str("h2", NoAttrs, <<TextTok>>) \o Str("p", NoAttrs, <<TextTok>>)
  \o Str("h1", NoAttrs, <<TextTok>>)

Middle ==
  Str("p", NoAttrs, Str("a", HrefX, <<TextTok>>)) \o Str("p", IdX, <<TextTok>>)
  \o Str("h2", NoAttrs, Str("a", NameX, <<>>)) \o <<TextTok>>

Ending == Str("p", NoAttrs, <<TextTok>>) \o Str("a", HrefX, <<TextTok>>)

\* What pickle.load gives for each book folder's book.pkl: a book of three
\* chapters, a book whose spine is empty and a book of one chapter.
Library ==
  [a_data |-> Book("A", <<"ann", "abe">>,
                 <<ChapterContent("c0", "c0.html", "Intro", Intro, "t0", 0),
                   ChapterContent("c1", "c1.html", "Middle", Middle, "t1", 1),
                   ChapterContent("c2", "c2.html", "Ending", Ending, "t2", 2)>>),
   b_data |-> Book("B", <<>>, <<>>),
   c_data |-> Book("C", <<"cy">>,
                 <<ChapterContent("d0", "d0.html", "Only", Ending, "u0", 0)>>)]

BookIds == DOMAIN Library

\* The folders whose book.pkl is written, damaged or removed while the server runs.
ChangingFolders == {"b_data"}

\* The identifiers requests carry: the book folders and one that is no folder.
RequestIds == BookIds \cup {"ghost"}

\* The anchors requests carry: none, empty, one some chapters resolve, one no
\* chapter resolves.
RequestAnchors == {None, Some(<<>>), Some(<<"x">>), Some(<<"z">>)}

\* ------------------------------------------------------------ load_book_cached
\* Lines 27-37: the loader proper. None when book.pkl is missing or cannot be
\* unpickled, the Book otherwise.
LoadBook(d, folder_name) ==
  IF folder_name \notin DOMAIN d \/ d[folder_name] = "absent" THEN None
  ELSE IF d[folder_name] = "corrupt" THEN None
  ELSE Some(Library[folder_name])

CacheKeys(c) == {c[i].key : i \in 1..Len(c)}

\* Where the cache holds k's entry.
CacheIndex(c, k) == CHOOSE i \in 1..Len(c) : c[i].key = k

\* The cache after a miss stored value under k: newest last, the oldest entry
\* dropped when the cache is full.
CacheInsert(c, k, value) ==
  LET grown == Append(c, [key |-> k, value |-> value])
  IN IF Len(grown) > CacheMaxSize THEN Tail(grown) ELSE grown

\* The cache after a hit on k: the entry becomes the newest.
CacheTouch(c, k) ==
  LET i == CacheIndex(c, k)
  IN SelectSeq(c, LAMBDA e : e.key # k) \o <<c[i]>>

\* Lines 21-37: load_book_cached(folder_name) under lru_cache. Whatever the
\* loader returned, None included, is stored and returned again on a hit.
load_book_cached(c, d, folder_name) ==
  IF folder_name \in CacheKeys(c)
  THEN [cache |-> CacheTouch(c, folder_name),
        result |-> c[CacheIndex(c, folder_name)].value,
        ran_loader |-> FALSE]
  ELSE [cache |-> CacheInsert(c, folder_name, LoadBook(d, folder_name)),
        result |-> LoadBook(d, folder_name),
        ran_loader |-> TRUE]

ResultKind(o) == IF IsNone(o) THEN "absent" ELSE "book"

\* The record of one load_book_cached call.
LookupOf(folder_name, l, before) ==
  Some([key |-> folder_name, ran_loader |-> l.ran_loader,
        result |-> ResultKind(l.result), before |-> before[folder_name]])

\* ------------------------------------------------------------ read_chapter
NotFound(detail) == [status |-> 404, detail |-> detail]

\* An exception other than HTTPException leaves the handler: a 500 response.
ServerError(detail) == [status |-> 500, detail |-> detail]

\* book.spine[chapter_index] as Python evaluates it: a negative index counts from
\* the end, an index outside -len..len-1 raises IndexError (None here).
SpineItem(spine, chapter_index) ==
  IF 0 <= chapter_index /\ chapter_index < Len(spine) THEN Some(spine[chapter_index + 1])
  ELSE IF -Len(spine) <= chapter_index /\ chapter_index < 0
       THEN Some(spine[Len(spine) + chapter_index + 1])
  ELSE None

ChapterOutOfRangeOffByOne(chapter_index, n) == chapter_index < 0 \/ chapter_index > n

\* Line 114: chapter_index < 0 or chapter_index >= len(book.spine)
ChapterOutOfRange(chapter_index, n) == chapter_index < 0 \/ chapter_index >= n

\* Line 132
previous_index(chapter_index) ==
  IF chapter_index > 0 THEN Some(chapter_index - 1) ELSE None

next_indexOffByOne(chapter_index, n) ==
  IF chapter_index < n THEN Some(chapter_index + 1) ELSE None

\* Line 133
next_index(chapter_index, n) ==
  IF chapter_index < n - 1 THEN Some(chapter_index + 1) ELSE None

NarrowInPlace(spine, chapter_index, subsection_content) ==
  IF IsNone(subsection_content) \/ IsNone(SpineItem(spine, chapter_index)) THEN spine
  ELSE [spine EXCEPT ![(chapter_index % Len(spine)) + 1].content = subsection_content[1]]

\* Lines 117-129 assign nothing to book.spine or to the chapter read from it:
\* the spine the cached Book holds after the handler ran.
SpineAfterRead(spine, chapter_index, subsection_content) == spine

\* Lines 121-129: the chapter handed to the template.
CurrentChapter(chapter, subsection_content) ==
  IF ~IsNone(subsection_content)
  THEN ChapterContent(chapter.id, chapter.href, chapter.title,
                      subsection_content[1], chapter.text, chapter.order)
  ELSE chapter

\* Lines 110-145: read_chapter's outcome for the Book (or None) the cache gave.
read_chapter(book, book_id, chapter_index, anchor_param) ==
  IF IsNone(book) THEN NotFound("Book not found")
  ELSE IF ChapterOutOfRange(chapter_index, Len(book[1].spine))
       THEN NotFound("Chapter not found")
  ELSE LET current_chapter == SpineItem(book[1].spine, chapter_index)
       IN IF IsNone(current_chapter) THEN ServerError("IndexError")
          ELSE LET subsection_content ==
                     build_subsection_content(current_chapter[1].content, anchor_param)
               IN [status |-> 200,
                   current_chapter |-> CurrentChapter(current_chapter[1], subsection_content),
                   chapter_index |-> chapter_index,
                   book_id |-> book_id,
                   prev_idx |-> previous_index(chapter_index),
                   next_idx |-> next_index(chapter_index, Len(book[1].spine)),
                   anchor |-> anchor_param,
                   is_subsection |-> ~IsNone(subsection_content)]

\* The cached Book after read_chapter ran on it.
BookAfterRead(book, chapter_index, anchor_param) ==
  IF IsNone(book) THEN book
  ELSE IF ChapterOutOfRange(chapter_index, Len(book[1].spine))
          \/ IsNone(SpineItem(book[1].spine, chapter_index)) THEN book
  ELSE Some([book[1] EXCEPT !.spine =
               SpineAfterRead(book[1].spine, chapter_index,
                              build_subsection_content(
                                SpineItem(book[1].spine, chapter_index)[1].content,
                                anchor_param))])

\* The whole handler: the cache lookup, then the response.
HandleRead(route, book_id, chapter_index, anchor_param) ==
  LET l == load_book_cached(cache, disk, book_id)
      at == CacheIndex(l.cache, book_id)
  IN /\ cache' = [l.cache EXCEPT ![at].value =
                    BookAfterRead(l.result, chapter_index, anchor_param)]
     /\ lookup' = LookupOf(book_id, l, last_result)
     /\ last_result' = [last_result EXCEPT ![book_id] = ResultKind(l.result)]
     /\ request' = Some([route |-> route, book_id |-> book_id,
                         chapter_index |-> chapter_index, anchor |-> anchor_param])
     /\ response' = read_chapter(l.result, book_id, chapter_index, anchor_param)
     /\ UNCHANGED disk
     /\ UNCHANGED callVars

\* GET /read/{book_id}/{chapter_index}?anchor=...
ReadChapter ==
  \E book_id \in RequestIds, chapter_index \in (-1)..MaxIndex, a \in RequestAnchors :
    HandleRead("read_chapter", book_id, chapter_index, a)

\* GET /read/{book_id}: read_chapter with chapter_index 0 and the same request.
RedirectToFirstChapter ==
  \E book_id \in RequestIds, a \in RequestAnchors :
    HandleRead("redirect_to_first_chapter", book_id, 0, a)

\* ------------------------------------------------------------ library_view
\* ", ".join(authors): the pieces of the joined string.
RECURSIVE JoinAuthors(_)
JoinAuthors(authors) ==
  IF Len(authors) <= 1 THEN authors
  ELSE <<Head(authors), ", ">> \o JoinAuthors(Tail(authors))

RECURSIVE ListBooks(_, _, _, _, _)
\* Lines 46-57: the loop over the listed folders; st carries the cache, the
\* records of the calls and the rows collected so far.
ListBooks(items, c, results, look, books) ==
  IF items = <<>>
  THEN [cache |-> c, last_result |-> results, lookup |-> look, books |-> books]
  ELSE LET item == Head(items)
           l == load_book_cached(c, disk, item)
       IN ListBooks(Tail(items), l.cache,
                    [results EXCEPT ![item] = ResultKind(l.result)],
                    LookupOf(item, l, results),
                    IF IsNone(l.result) THEN books
                    ELSE Append(books,
                                [id |-> item,
                                 title |-> l.result[1].metadata.title,
                                 author |-> JoinAuthors(l.result[1].metadata.authors),
                                 chapters |-> Len(l.result[1].spine)]))

\* The orders in which os.listdir may give the book folders.
Listings ==
  {items \in [1..Cardinality(BookIds) -> BookIds] :
     \A i, j \in DOMAIN items : i # j => items[i] # items[j]}

\* GET /
LibraryView ==
  \E items \in Listings :
    LET done == ListBooks(items, cache, last_result, lookup, <<>>)
    IN /\ cache' = done.cache
       /\ last_result' = done.last_result
       /\ lookup' = done.lookup
       /\ request' = Some([route |-> "library_view"])
       /\ response' = [status |-> 200, books |-> done.books]
       /\ UNCHANGED disk
       /\ UNCHANGED callVars

\* ------------------------------------------------------------ the book folders
\* A book.pkl is written, damaged or removed while the server runs.
ArchiveChanges ==
  \E k \in ChangingFolders, v \in {"absent", "corrupt", "ok"} :
    /\ disk[k] # v
    /\ disk' = [disk EXCEPT ![k] = v]
    /\ UNCHANGED <<cache, last_result, lookup, request, response>>
    /\ UNCHANGED callVars

\* ------------------------------------------------------------ the server
Init ==
  /\ html = <<>>
  /\ anchor = None
  /\ ret = [called |-> FALSE, value |-> None]
  /\ disk = [a_data |-> "ok", b_data |-> "absent", c_data |-> "ok"]
  /\ cache = <<>>
  /\ last_result = [k \in RequestIds |-> "never"]
  /\ lookup = None
  /\ request = None
  /\ response = None

Next ==
  \/ ReadChapter
  \/ RedirectToFirstChapter
  \/ LibraryView
  \/ ArchiveChanges

Spec == Init /\ [][Next]_vars

\* ------------------------------------------------------------ properties of the server
\* The latest request was a chapter read (directly or through /read/{book_id}).
IsRead ==
  ~IsNone(request) /\ request[1].route \in {"read_chapter", "redirect_to_first_chapter"}

\* The latest chapter read found its book and addressed a chapter of its spine.
ReadAddressed ==
  /\ IsRead
  /\ lookup[1].result = "book"
  /\ 0 <= request[1].chapter_index
  /\ request[1].chapter_index < Len(Library[request[1].book_id].spine)

\* The chapter, as loaded, that the latest request addressed.
AddressedChapter == Library[request[1].book_id].spine[request[1].chapter_index + 1]

\* The request's anchor is absent, empty or matches no element of the chapter.
AnchorUnresolved ==
  \/ IsNone(request[1].anchor)
  \/ request[1].anchor[1] = <<>>
  \/ IsNone(PriorityTarget(BeautifulSoup(AddressedChapter.content), request[1].anchor[1]))

\* C5: a chapter read whose anchor is absent, empty or matches no element under
\* any strategy answers 200 with the chapter's full content (the chapter as
\* loaded) and is_subsection false, never an error.
C5_UnresolvedAnchorFallsBack ==
  (ReadAddressed /\ AnchorUnresolved)
    => /\ response.status = 200
       /\ response.current_chapter = AddressedChapter
       /\ response.is_subsection = FALSE
       /\ response.anchor = request[1].anchor

\* A read with a non-empty anchor that no element of the chapter matches.
C5_Witness ==
  /\ ReadAddressed /\ AnchorUnresolved
  /\ ~IsNone(request[1].anchor) /\ request[1].anchor[1] # <<>>
  /\ response.status = 200 /\ ~response.is_subsection
  /\ response.current_chapter.content = AddressedChapter.content

\* C6: every Book the cache holds equals the book as loaded (each chapter's id,
\* href, title, content, text and order); a narrowed response carries a chapter
\* with the original's id, href, title, text and order and the subsection as
\* content; a read without anchor returns the full original content.
C6_CopyOnNarrow ==
  /\ \A i \in 1..Len(cache) :
       ~IsNone(cache[i].value) => cache[i].value[1] = Library[cache[i].key]
  /\ (IsRead /\ response.status = 200)
       => /\ response.current_chapter.id = AddressedChapter.id
          /\ response.current_chapter.href = AddressedChapter.href
          /\ response.current_chapter.title = AddressedChapter.title
          /\ response.current_chapter.text = AddressedChapter.text
          /\ response.current_chapter.order = AddressedChapter.order
          /\ response.is_subsection
               => Some(response.current_chapter.content) =
                    build_subsection_content(AddressedChapter.content, request[1].anchor)
          /\ IsNone(request[1].anchor)
               => response.current_chapter.content = AddressedChapter.content

\* A narrowed response (its content differs from the chapter's) while the cache
\* still holds the book as loaded.
C6_Witness ==
  /\ IsRead /\ response.status = 200 /\ response.is_subsection
  /\ response.current_chapter.content # AddressedChapter.content
  /\ \E i \in 1..Len(cache) :
       /\ cache[i].key = request[1].book_id
       /\ cache[i].value = Some(Library[cache[i].key])

\* C7 as stated: a call that follows a call for the same book that yielded
\* 'absent' runs the loader again, and returns the Book when the archive is
\* loadable by then.
C7_NoNegativeCaching ==
  (~IsNone(lookup) /\ lookup[1].before = "absent")
    => /\ lookup[1].ran_loader
       /\ (lookup[1].key \in DOMAIN disk /\ disk[lookup[1].key] = "ok")
            => lookup[1].result = "book"

\* C8: a chapter read never ends in a server error; an identifier that is no
\* book folder, or whose lookup gave no book, gives 404 'Book not found'; a found
\* book with chapter_index < 0 or >= len(spine) gives 404 'Chapter not found';
\* a 200 response comes only from an index inside 0..len(spine)-1.
C8_BadAddressIsNotFound ==
  IsRead =>
    /\ response.status \in {200, 404}
    /\ request[1].book_id \notin BookIds => response = NotFound("Book not found")
    /\ lookup[1].result = "absent" => response = NotFound("Book not found")
    /\ (lookup[1].result = "book"
          /\ (request[1].chapter_index < 0
                \/ request[1].chapter_index >= Len(Library[request[1].book_id].spine)))
         => response = NotFound("Chapter not found")
    /\ response.status = 200 => ReadAddressed

\* /read/{book_id} on a loaded book whose spine is empty: 'Chapter not found'.
C8_Witness ==
  /\ IsRead /\ request[1].route = "redirect_to_first_chapter"
  /\ lookup[1].result = "book"
  /\ Library[request[1].book_id].spine = <<>>
  /\ response = NotFound("Chapter not found")

\* C9: for a served chapter i of a spine of length N, prev_idx is None iff i = 0
\* and else i-1, next_idx is None iff i = N-1 and else i+1; for 0 < i < N-1 both
\* are defined and the next of the previous is i; a defined index is in 0..N-1.
C9_Navigation ==
  (IsRead /\ response.status = 200) =>
    LET i == response.chapter_index
        N == Len(Library[response.book_id].spine)
    IN /\ i = request[1].chapter_index
       /\ response.prev_idx = (IF i = 0 THEN None ELSE Some(i - 1))
       /\ response.next_idx = (IF i = N - 1 THEN None ELSE Some(i + 1))
       /\ (0 < i /\ i < N - 1)
            => /\ ~IsNone(response.prev_idx) /\ ~IsNone(response.next_idx)
               /\ next_index(response.prev_idx[1], N) = Some(i)
       /\ ~IsNone(response.prev_idx) => response.prev_idx[1] \in 0..(N - 1)
       /\ ~IsNone(response.next_idx) => response.next_idx[1] \in 0..(N - 1)

\* A served chapter that is neither the first nor the last of its spine.
C9_Witness ==
  /\ IsRead /\ response.status = 200
  /\ 0 < response.chapter_index
  /\ response.chapter_index < Len(Library[response.book_id].spine) - 1
  /\ response.prev_idx = Some(response.chapter_index - 1)
  /\ response.next_idx = Some(response.chapter_index + 1)

\* ------------------------------------------------------------ serve_image
\* BOOKS_DIR = "."
BOOKS_DIR == <<".">>

\* The characters of the book_id and image_name a request may carry.
PathChars == {"a", ".", "/"}

\* The values of book_id and image_name: not empty, at most MaxStrLen long.
PathStrings == UNION {[1..n -> PathChars] : n \in 1..MaxStrLen}

\* "images"
ImagesName == <<"i", "m", "a", "g", "e", "s">>

\* os.path.basename(p): what follows the last '/'.
basename(p) ==
  LET slashes == {i \in 1..Len(p) : p[i] = "/"}
  IN IF slashes = {} THEN p
     ELSE SubSeq(p, Last(slashes) + 1, Len(p))

\* One step of os.path.join: an absolute part replaces what came before, a part
\* is appended directly after '' or a trailing '/', behind a '/' otherwise.
join2(a, b) ==
  IF b # <<>> /\ Head(b) = "/" THEN b
  ELSE IF a = <<>> \/ a[Len(a)] = "/" THEN a \o b
  ELSE a \o <<"/">> \o b

\* os.path.join(a, b, c, d)
join4(a, b, c, d) == join2(join2(join2(a, b), c), d)

\* Lines 155-158: the path serve_image looks up.
ImagePath(book_id, image_name) ==
  join4(BOOKS_DIR, basename(book_id), ImagesName, basename(image_name))

RECURSIVE SplitPath(_, _)
\* The components of a path between its '/' characters; cur is the one being read.
SplitPath(p, cur) ==
  IF p = <<>> THEN <<cur>>
  ELSE IF Head(p) = "/" THEN <<cur>> \o SplitPath(Tail(p), <<>>)
  ELSE SplitPath(Tail(p), Append(cur, Head(p)))

\* The file system: the server runs in /srv (BOOKS_DIR) which holds the book
\* folder a with images/a; /images/a lies beside /srv, outside it.
ServerDir == << <<"s", "r", "v">> >>

Files ==
  {ServerDir \o << <<"a">>, ImagesName, <<"a">> >>,
   << ImagesName, <<"a">> >>}

Directories == UNION {{SubSeq(f, 1, n) : n \in 0..(Len(f) - 1)} : f \in Files}

RECURSIVE Walk(_, _)
\* The location a relative path leads to from `at`, None when a component on
\* the way does not exist.
Walk(at, parts) ==
  IF parts = <<>> THEN Some(at)
  ELSE LET part == Head(parts)
       IN IF at \notin Directories THEN None
          ELSE IF part = <<>> \/ part = <<".">> THEN Walk(at, Tail(parts))
          ELSE IF part = <<".", ".">>
               THEN Walk(IF at = <<>> THEN at ELSE SubSeq(at, 1, Len(at) - 1), Tail(parts))
          ELSE IF Append(at, part) \in Files \cup Directories
               THEN Walk(Append(at, part), Tail(parts))
          ELSE None

\* Where a path leads, from the server's directory or from the root.
Locate(path) ==
  IF path # <<>> /\ Head(path) = "/" THEN Walk(<<>>, SplitPath(path, <<>>))
  ELSE Walk(ServerDir, SplitPath(path, <<>>))

\* os.path.exists(path)
exists(path) == path # <<>> /\ ~IsNone(Locate(path))

\* Lines 155-163: serve_image's outcome.
serve_image(book_id, image_name) ==
  LET img_path == ImagePath(book_id, image_name)
  IN IF ~exists(img_path)
     THEN [status |-> 404, detail |-> "Image not found", img_path |-> img_path]
     ELSE [status |-> 200, detail |-> "FileResponse", img_path |-> img_path]

\* GET /read/{book_id}/images/{image_name}: the handler answers the request.
ServeImage ==
  /\ ~IsNone(request) /\ request[1].route = "serve_image"
  /\ IsNone(response)
  /\ response' = serve_image(request[1].book_id, request[1].image_name)
  /\ UNCHANGED <<disk, cache, last_result, lookup, request>>
  /\ UNCHANGED callVars

\* An image request has arrived, with any book_id and image_name.
InitImage ==
  /\ html = <<>>
  /\ anchor = None
  /\ ret = [called |-> FALSE, value |-> None]
  /\ disk = <<>>
  /\ cache = <<>>
  /\ last_result = <<>>
  /\ lookup = None
  /\ \E book_id \in PathStrings, image_name \in PathStrings :
       request = Some([route |-> "serve_image", book_id |-> book_id,
                       image_name |-> image_name])
  /\ response = None

NextImage == ServeImage

SpecImage == InitImage /\ [][NextImage]_vars

\* C10 as stated: whatever book_id and image_name are, the path looked up is
\* BOOKS_DIR, one folder name, 'images' and one file name joined, the two names
\* free of path separators, and the place it leads to lies inside BOOKS_DIR,
\* never outside it; a path that does not exist gives 404 'Image not found'.
C10_NoTraversal ==
  (~IsNone(request) /\ request[1].route = "serve_image" /\ ~IsNone(response)) =>
    /\ \E folder \in PathStrings, file \in PathStrings :
         /\ \A i \in 1..Len(folder) : folder[i] # "/"
         /\ \A i \in 1..Len(file) : file[i] # "/"
         /\ response.img_path = join4(BOOKS_DIR, folder, ImagesName, file)
    /\ ~IsNone(Locate(response.img_path))
         => /\ Len(Locate(response.img_path)[1]) > Len(ServerDir)
            /\ SubSeq(Locate(response.img_path)[1], 1, Len(ServerDir)) = ServerDir
    /\ IsNone(Locate(response.img_path))
         => (response.status = 404 /\ response.detail = "Image not found")

====
